---- MODULE Spec2Model ----
(***************************************************************************)
(* A model of asr/utils/aspire.py: the label collapser (make_ctc_labels),  *)
(* the prior counter (count_priors) and the manifest builder               *)
(* (make_manifest with split_wav and get_transcripts).                     *)
(*                                                                         *)
(* Strings (paths, tokens of a label file, transcript texts) are modelled  *)
(* as tuples of one-character strings, so that str.replace, "%d" and int() *)
(* are computed character by character.                                    *)
(***************************************************************************)
EXTENDS Integers, Sequences, FiniteSets, TLC

VARIABLES op, pc, exc, files, phn_files, idx, saved, blank, counts,
          recipe, disk, wav_manifest, txt_manifest, csv, rebuilt

vars == <<op, pc, exc, files, phn_files, idx, saved, blank, counts,
          recipe, disk, wav_manifest, txt_manifest, csv, rebuilt>>

labelVars == <<files, phn_files, idx, saved, blank, counts>>
manifestVars == <<recipe, disk, wav_manifest, txt_manifest, csv, rebuilt>>

(***************************************************************************)
(* Bounds of the model.                                                    *)
(***************************************************************************)
\* longest label file (in lines) of the batch runs
MaxLen == 2
\* longest label file (in lines) of the single-file runs
MaxSeqLen == 6
\* most lines of the recipe's text file
MaxLines == 2

\* frames of the recording the segments are cut from (wav.getnframes())
NumFrames == 2
\* frames per second of that recording (wav.getframerate())
FrameRate == 1
\* most label files under the target directory in a batch run
MaxFiles == 2
\* number of rows of asr/kaldi/graph/labels.txt (len(labels)), an input
VocabSize == 3

(***************************************************************************)
(* Character strings.                                                      *)
(***************************************************************************)
Digits == <<"0", "1", "2", "3", "4", "5", "6", "7", "8", "9">>

DigitSet == {Digits[i] : i \in 1..10}

DigitVal(c) == (CHOOSE i \in 1..10 : Digits[i] = c) - 1

StartsWith(s, pre) ==
    /\ Len(pre) <= Len(s)
    /\ SubSeq(s, 1, Len(pre)) = pre

EndsWith(s, suf) ==
    /\ Len(suf) <= Len(s)
    /\ SubSeq(s, Len(s) - Len(suf) + 1, Len(s)) = suf

Drop(s, n) == SubSeq(s, n + 1, Len(s))

\* str.replace(old, new): every non-overlapping occurrence, left to right
RECURSIVE StrReplace(_, _, _)
StrReplace(s, old, new) ==
    IF Len(s) = 0 THEN <<>>
    ELSE IF StartsWith(s, old)
         THEN new \o StrReplace(Drop(s, Len(old)), old, new)
         ELSE <<Head(s)>> \o StrReplace(Tail(s), old, new)

\* str.find(c): 0-based position of the first occurrence, -1 when absent
StrFind(s, c) ==
    IF \E i \in 1..Len(s) : s[i] = c
    THEN (CHOOSE i \in 1..Len(s) : s[i] = c /\ \A j \in 1..(i - 1) : s[j] # c) - 1
    ELSE -1

\* position of the last occurrence of c in s, 0 when absent
LastPos(s, c) ==
    IF \E i \in 1..Len(s) : s[i] = c
    THEN CHOOSE i \in 1..Len(s) : s[i] = c /\ \A j \in (i + 1)..Len(s) : s[j] # c
    ELSE 0

\* pathlib: PurePath.parent, .name, .stem, .suffix of a relative path
PathParent(path) ==
    IF LastPos(path, "/") = 0 THEN <<>> ELSE SubSeq(path, 1, LastPos(path, "/") - 1)

PathName(path) == Drop(path, LastPos(path, "/"))

PathStem(path) ==
    IF LastPos(PathName(path), ".") <= 1 THEN PathName(path)
    ELSE SubSeq(PathName(path), 1, LastPos(PathName(path), ".") - 1)

PathSuffix(path) == Drop(PathName(path), Len(PathStem(path)))

\* Path(a).joinpath(b) of relative paths
JoinPath(a, b) == IF Len(a) = 0 THEN b ELSE a \o <<"/">> \o b

SeqsUpTo(S, n) == UNION {[1..m -> S] : m \in 0..n}

\* the orders in which a directory scan can list a set of paths
Orders(S) ==
    {o \in [1..Cardinality(S) -> S] : \A i, j \in 1..Cardinality(S) : o[i] = o[j] => i = j}

(***************************************************************************)
(* np.loadtxt(dtype="int") and np.savetxt(fmt="%d") on one-token lines.    *)
(***************************************************************************)
IsIntToken(tok) ==
    LET body == IF Len(tok) > 0 /\ Head(tok) = "-" THEN Tail(tok) ELSE tok
    IN  /\ Len(body) > 0
        /\ \A i \in 1..Len(body) : body[i] \in DigitSet

RECURSIVE ParseNat(_)
ParseNat(body) ==
    IF Len(body) = 0 THEN 0
    ELSE 10 * ParseNat(SubSeq(body, 1, Len(body) - 1)) + DigitVal(body[Len(body)])

ParseInt(tok) == IF Head(tok) = "-" THEN 0 - ParseNat(Tail(tok)) ELSE ParseNat(tok)

RECURSIVE FormatNat(_)
FormatNat(n) ==
    IF n < 10 THEN <<Digits[n + 1]>>
    ELSE FormatNat(n \div 10) \o <<Digits[(n % 10) + 1]>>

FormatInt(n) == IF n < 0 THEN <<"-">> \o FormatNat(0 - n) ELSE FormatNat(n)

\* np.loadtxt raises ValueError on a token that is no integer
LoadOk(content) == \A i \in 1..Len(content) : IsIntToken(content[i])

loadtxt(content) == [i \in 1..Len(content) |-> ParseInt(content[i])]

savetxt(arr) == [i \in 1..Len(arr) |-> FormatInt(arr[i])]

(***************************************************************************)
(* The label files.                                                        *)
(***************************************************************************)
Root == <<>>

PHN == <<"p", "h", "n">>
CTC == <<"c", "t", "c">>
DOT == <<".">>

\* label files that may lie under the target directory:
\*   d/a.phn, phn/a.phn, ctc/a.phn, d/phn.phn
CandidatePaths ==
    { JoinPath(<<"d">>, <<"a">> \o DOT \o PHN),
      JoinPath(PHN, <<"a">> \o DOT \o PHN),
      JoinPath(CTC, <<"a">> \o DOT \o PHN),
      JoinPath(<<"d">>, PHN \o DOT \o PHN) }

\* lines a label file may hold: labels in and out of the vocabulary, and a
\* token that is no integer
LabelTokens == {<<"0">>, <<"2">>, <<"3">>, <<"-", "1">>, <<"x">>}

\* lines of the label file of a single-file run
FrameTokens == {<<"1">>, <<"2">>, <<"3">>}

\* "priors_count.txt"
PRIORS_COUNT_TXT ==
    <<"p", "r", "i", "o", "r", "s", "_", "c", "o", "u", "n", "t", ".", "t", "x", "t">>

PriorsPath == JoinPath(Root, PRIORS_COUNT_TXT)

Put(f, k, v) == [x \in DOMAIN f \cup {k} |-> IF x = k THEN v ELSE f[x]]

\* Path(target_dir).rglob("*.phn")
rglob_phn(fsys) == {path \in DOMAIN fsys : EndsWith(PathName(path), DOT \o PHN)}

\* open(path, "w") needs the directory of path
DirExists(fsys, dir) ==
    \/ dir = Root
    \/ \E path \in DOMAIN fsys : StartsWith(path, dir \o <<"/">>)

(***************************************************************************)
(* misc.remove_duplicates: one pass that yields a label when it differs    *)
(* from the label before it.                                               *)
(***************************************************************************)
RECURSIVE remove_duplicates_from(_, _, _)
remove_duplicates_from(labels, i, prev) ==
    IF i > Len(labels) THEN <<>>
    ELSE IF i > 1 /\ labels[i] = prev
         THEN remove_duplicates_from(labels, i + 1, prev)
         ELSE <<labels[i]>> \o remove_duplicates_from(labels, i + 1, labels[i])

remove_duplicates(labels) == remove_duplicates_from(labels, 1, 0)

\* mutants of make_ctcs: the labels as read, and blanks interleaved
make_ctcs_keep(phns) == phns

RECURSIVE interleave(_, _)
interleave(s, b) == IF Len(s) = 0 THEN <<b>> ELSE <<b, Head(s)>> \o interleave(Tail(s), b)

make_ctcs_blanks(phns) == interleave(remove_duplicates(phns), 0)

\* ctcs = np.array([x for x in remove_duplicates(phns)])
make_ctcs(phns) == remove_duplicates(phns)

\* ctc_file = phn_file.replace("phn", "ctc")
ctc_file_of(phn_file) == StrReplace(phn_file, PHN, CTC)

(***************************************************************************)
(* count_priors.                                                           *)
(***************************************************************************)
NoCounts == [c \in 0..(VocabSize - 1) |-> 0]

\* counts[int(c)] += n on a Python list: c in -len..len-1, else IndexError
ListIndexOk(c) == (0 - VocabSize) <= c /\ c < VocabSize

ListIndex(c) == IF c < 0 THEN VocabSize + c ELSE c

Incr(cnt, c, n) == [cnt EXCEPT ![ListIndex(c)] = @ + n]

\* mutant of count_file: the blank gains the length, not the length + 1
count_file_len(cnt, phns, blk) == Incr(cnt, blk, Len(phns))

\* one iteration of the counting loop, all labels being list indices
RECURSIVE count_frames(_, _)
count_frames(cnt, phns) ==
    IF Len(phns) = 0 THEN cnt
    ELSE count_frames(Incr(cnt, Head(phns), 1), Tail(phns))

count_file(cnt, phns, blk) == Incr(count_frames(cnt, phns), blk, Len(phns) + 1)

\* the counting loop over the listed files: the counts, or the exception
RECURSIVE count_loop(_, _, _, _)
count_loop(cnt, fsys, order, blk) ==
    IF Len(order) = 0 THEN [exc |-> "none", counts |-> cnt]
    ELSE IF ~LoadOk(fsys[Head(order)])
         THEN [exc |-> "ValueError", counts |-> cnt]
         ELSE LET phns == loadtxt(fsys[Head(order)])
              IN  IF \E i \in 1..Len(phns) : ~ListIndexOk(phns[i])
                  THEN [exc |-> "IndexError", counts |-> cnt]
                  ELSE count_loop(count_file(cnt, phns, blk), fsys, Tail(order), blk)

\* count_priors(target_dir, phn_files=None); target_dir is a tagged value,
\* [tag |-> "str", val |-> path] or [tag |-> "list", val |-> list]
count_priors(target_dir, fsys, order, blk) ==
    IF target_dir.tag # "str"
    THEN [exc |-> "TypeError", counts |-> NoCounts, files |-> fsys]
    ELSE LET r == count_loop(NoCounts, fsys, order, blk)
         IN  IF r.exc # "none"
             THEN [exc |-> r.exc, counts |-> r.counts, files |-> fsys]
             ELSE [exc |-> "none", counts |-> r.counts,
                   files |-> Put(fsys, JoinPath(target_dir.val, PRIORS_COUNT_TXT),
                                 savetxt([i \in 1..VocabSize |-> r.counts[i - 1]]))]

(***************************************************************************)
(* The runs of make_ctc_labels and of count_priors.                        *)
(***************************************************************************)
NoManifest == [k \in {} |-> <<>>]

NoRecipe == [segments |-> NoManifest, text |-> <<>>]

InitNoManifest ==
    /\ recipe = NoRecipe
    /\ disk = NoManifest
    /\ wav_manifest = NoManifest
    /\ txt_manifest = NoManifest
    /\ csv = <<>>
    /\ rebuilt = FALSE

InitLabels(ops, pathsets, tokens, maxlen) ==
    /\ op \in ops
    /\ pc = "start"
    /\ exc = "none"
    /\ files \in UNION {[S -> SeqsUpTo(tokens, maxlen)] : S \in pathsets}
    /\ phn_files = <<>>
    /\ idx = 0
    /\ saved = <<>>
    /\ blank \in 0..(VocabSize - 1)
    /\ counts = NoCounts
    /\ InitNoManifest

\* a batch over at most MaxFiles label files of any content
InitBatch ==
    InitLabels({"make_ctc_labels", "count_priors"},
               {S \in SUBSET CandidatePaths : Cardinality(S) <= MaxFiles},
               LabelTokens, MaxLen)

\* make_ctc_labels over one well-formed label file
InitCollapse ==
    InitLabels({"make_ctc_labels"},
               {{JoinPath(<<"d">>, <<"a">> \o DOT \o PHN)}},
               FrameTokens, MaxSeqLen)

\* count_priors over the label files of one directory
InitPriors ==
    InitLabels({"count_priors"},
               SUBSET {JoinPath(<<"d">>, <<"a">> \o DOT \o PHN),
                       JoinPath(<<"d">>, PHN \o DOT \o PHN)},
               LabelTokens, MaxLen)

\* make_ctc_labels, line 168: the scan for *.phn files
Scan ==
    /\ op = "make_ctc_labels"
    /\ pc = "start"
    /\ phn_files' \in Orders(rglob_phn(files))
    /\ idx' = 1
    /\ pc' = "loop"
    /\ UNCHANGED <<op, exc, files, saved, blank, counts, manifestVars>>

\* make_ctc_labels, lines 170-178: one iteration of the conversion loop
ConvertFile ==
    /\ op = "make_ctc_labels"
    /\ pc = "loop"
    /\ idx <= Len(phn_files)
    /\ LET phn_file == phn_files[idx]
           ctc_file == ctc_file_of(phn_file)
       IN  IF ~LoadOk(files[phn_file])
           THEN /\ exc' = "ValueError"
                /\ pc' = "raised"
                /\ UNCHANGED <<files, saved, idx>>
           ELSE IF ~DirExists(files, PathParent(ctc_file))
           THEN /\ exc' = "FileNotFoundError"
                /\ pc' = "raised"
                /\ UNCHANGED <<files, saved, idx>>
           ELSE LET dat == savetxt(make_ctcs(loadtxt(files[phn_file])))
                IN  /\ files' = Put(files, ctc_file, dat)
                    /\ saved' = Append(saved, [src |-> phn_file, dst |-> ctc_file, dat |-> dat])
                    /\ idx' = idx + 1
                    /\ UNCHANGED <<exc, pc>>
    /\ UNCHANGED <<op, phn_files, blank, counts, manifestVars>>

\* make_ctc_labels, line 179: count_priors(phn_files)
CallCountPriors ==
    /\ op = "make_ctc_labels"
    /\ pc = "loop"
    /\ idx > Len(phn_files)
    /\ LET r == count_priors([tag |-> "list", val |-> phn_files], files,
                             phn_files, blank)
       IN  /\ exc' = r.exc
           /\ counts' = r.counts
           /\ files' = r.files
           /\ pc' = IF r.exc = "none" THEN "done" ELSE "raised"
    /\ UNCHANGED <<op, phn_files, idx, saved, blank, manifestVars>>

\* count_priors(target_dir) called on the target directory
CountPriors ==
    /\ op = "count_priors"
    /\ pc = "start"
    /\ \E order \in Orders(rglob_phn(files)) :
         LET r == count_priors([tag |-> "str", val |-> Root], files, order, blank)
         IN  /\ phn_files' = order
             /\ exc' = r.exc
             /\ counts' = r.counts
             /\ files' = r.files
             /\ pc' = IF r.exc = "none" THEN "done" ELSE "raised"
    /\ UNCHANGED <<op, idx, saved, blank, manifestVars>>

NextCollapse == Scan \/ ConvertFile \/ CallCountPriors

NextPriors == CountPriors

SpecCollapse == InitCollapse /\ [][NextCollapse]_vars

SpecPriors == InitPriors /\ [][NextPriors]_vars

(***************************************************************************)
(* The manifest builder: split_wav, get_transcripts, make_manifest.        *)
(* One dataset split (mode) is modelled; its directory is "t".  All the    *)
(* segments belong to one recording that wav.scp lists.                    *)
(***************************************************************************)
ModeDir == <<"t">>

WAV == <<"w", "a", "v">>
TXT == <<"t", "x", "t">>

UttIds == {<<"u">>, <<"s", "-", "u">>, WAV}

\* [start, end] of a segment, in seconds
SegmentTimes == {[start |-> 0, end |-> 1], [start |-> 1, end |-> 3]}

\* transcripts of the recipe's text file
Texts == {<<"A">>, <<"1">>}

\* lines of the recipe's text file: "uttid text", or an uttid alone
TextLines ==
    {u \o <<" ">> \o t : u \in UttIds, t \in Texts} \cup UttIds

CHAR_MASK ==
    {"a", "b", "c", "d", "e", "f", "g", "h", "i", "j", "k", "l", "m", "n", "o",
     "p", "q", "r", "s", "t", "u", "v", "w", "x", "y", "z",
     "'", "-", ".", "_", "<", ">", "[", "]", " "}

\* str.lower() on the characters of Texts
Lower(c) == IF c = "A" THEN "a" ELSE c

strip_text(text) ==
    SelectSeq([i \in 1..Len(text) |-> Lower(text[i])], LAMBDA x : x \in CHAR_MASK)

\* str.strip()
RECURSIVE Strip(_)
Strip(s) ==
    IF Len(s) = 0 THEN s
    ELSE IF Head(s) = " " THEN Strip(Tail(s))
    ELSE IF s[Len(s)] = " " THEN Strip(SubSeq(s, 1, Len(s) - 1))
    ELSE s

\* the file of an utterance: under the mode's directory, in the
\* subdirectory named by what precedes the first "-" of the id, if any
TarFile(uttid, ext) ==
    LET p == StrFind(uttid, "-")
        tar_path == IF p # -1 THEN JoinPath(ModeDir, SubSeq(uttid, 1, p)) ELSE ModeDir
    IN  JoinPath(tar_path, uttid \o DOT \o ext)

\* split_wav, lines 77-94: the segments that lie within the recording
InRecording(seg) ==
    LET fs == FrameRate * seg.start
        fe == FrameRate * seg.end
    IN  ~(fs < 0 \/ fe > NumFrames)

split_wav(segments) ==
    [uttid \in {u \in DOMAIN segments : InRecording(segments[u])} |->
        [file |-> TarFile(uttid, WAV),
         samples |-> FrameRate * segments[uttid].end - FrameRate * segments[uttid].start]]

\* get_transcripts, lines 105-124: the transcript files written and the
\* index returned, line by line
RECURSIVE get_transcripts(_, _, _)
get_transcripts(lines, txts, manifest) ==
    IF Len(lines) = 0 THEN [txt |-> txts, manifest |-> manifest]
    ELSE LET line == Strip(Head(lines))
             sp == StrFind(line, " ")
             uttid == SubSeq(line, 1, sp)
             text == Drop(line, sp + 1)
             managed_text == strip_text(text)
         IN  IF sp = -1 \/ Len(managed_text) = 0
             THEN get_transcripts(Tail(lines), txts, manifest)
             ELSE get_transcripts(Tail(lines),
                      Put(txts, TarFile(uttid, TXT), managed_text),
                      Put(manifest, uttid,
                          [file |-> TarFile(uttid, TXT), text |-> managed_text]))

\* make_manifest, lines 213-219: the indices rebuilt from the *.wav files
rglob_wav(wavs) == {path \in DOMAIN wavs : EndsWith(PathName(path), DOT \o WAV)}

rebuild_wav(wavs) ==
    [uttid \in {PathStem(w) : w \in rglob_wav(wavs)} |->
        LET wav_file == CHOOSE w \in rglob_wav(wavs) : PathStem(w) = uttid
        IN  [file |-> wav_file, samples |-> wavs[wav_file]]]

rebuild_txt(wavs) ==
    [uttid \in {PathStem(w) : w \in rglob_wav(wavs)} |->
        LET wav_file == CHOOSE w \in rglob_wav(wavs) : PathStem(w) = uttid
        IN  [file |-> StrReplace(wav_file, WAV, TXT), text |-> <<"-">>]]

\* mutant of manifest_rows: no row is skipped
RECURSIVE manifest_rows_all(_, _, _)
manifest_rows_all(keys, wm, tm) ==
    IF keys = {} THEN <<>>
    ELSE LET k == CHOOSE x \in keys : TRUE
         IN  <<[k |-> k, wav_file |-> wm[k].file, samples |-> wm[k].samples,
                txt_file |-> IF k \in DOMAIN tm THEN tm[k].file ELSE <<>>]>>
             \o manifest_rows_all(keys \ {k}, wm, tm)

\* make_manifest, lines 230-235: the rows written, over the keys of the
\* waveform index still to visit
RECURSIVE manifest_rows(_, _, _)
manifest_rows(keys, wm, tm) ==
    IF keys = {} THEN <<>>
    ELSE LET k == CHOOSE x \in keys : TRUE
         IN  IF k \notin DOMAIN tm
             THEN manifest_rows(keys \ {k}, wm, tm)
             ELSE <<[k |-> k, wav_file |-> wm[k].file, samples |-> wm[k].samples,
                     txt_file |-> tm[k].file]>>
                  \o manifest_rows(keys \ {k}, wm, tm)

InitNoLabels ==
    /\ files = NoManifest
    /\ phn_files = <<>>
    /\ idx = 0
    /\ saved = <<>>
    /\ blank = 0
    /\ counts = NoCounts

\* the recipe's data of one split, and an empty target directory
InitManifest ==
    /\ op = "make_manifest"
    /\ pc = "start"
    /\ exc = "none"
    /\ recipe \in [segments : UNION {[S -> SegmentTimes] : S \in SUBSET UttIds},
                   text : SeqsUpTo(TextLines, MaxLines)]
    /\ disk = [wav |-> NoManifest, txt |-> NoManifest]
    /\ wav_manifest = NoManifest
    /\ txt_manifest = NoManifest
    /\ csv = <<>>
    /\ rebuilt = FALSE
    /\ InitNoLabels

\* make_manifest(mode, target_path, rebuild=False)
BuildManifest ==
    /\ op = "make_manifest"
    /\ LET wm == split_wav(recipe.segments)
           t == get_transcripts(recipe.text, disk.txt, NoManifest)
       IN  /\ disk' = [wav |-> [path \in DOMAIN disk.wav \cup {wm[u].file : u \in DOMAIN wm} |->
                                   IF \E u \in DOMAIN wm : wm[u].file = path
                                   THEN wm[CHOOSE u \in DOMAIN wm : wm[u].file = path].samples
                                   ELSE disk.wav[path]],
                       txt |-> t.txt]
           /\ wav_manifest' = wm
           /\ txt_manifest' = t.manifest
           /\ csv' = manifest_rows(DOMAIN wm, wm, t.manifest)
    /\ rebuilt' = FALSE
    /\ pc' = "done"
    /\ UNCHANGED <<op, exc, recipe, labelVars>>

\* make_manifest(mode, target_path, rebuild=True)
RebuildManifest ==
    /\ op = "make_manifest"
    /\ wav_manifest' = rebuild_wav(disk.wav)
    /\ txt_manifest' = rebuild_txt(disk.wav)
    /\ csv' = manifest_rows(DOMAIN rebuild_wav(disk.wav), rebuild_wav(disk.wav),
                            rebuild_txt(disk.wav))
    /\ rebuilt' = TRUE
    /\ pc' = "done"
    /\ UNCHANGED <<op, exc, recipe, disk, labelVars>>

NextManifest == BuildManifest \/ RebuildManifest

SpecManifest == InitManifest /\ [][NextManifest]_vars

Init == InitBatch \/ InitManifest

Next == Scan \/ ConvertFile \/ CallCountPriors \/ CountPriors \/ BuildManifest \/ RebuildManifest

Spec == Init /\ [][Next]_vars

(***************************************************************************)
(* Properties of the label collapser.                                      *)
(***************************************************************************)
Saved == {saved[i] : i \in 1..Len(saved)}

\* the positions of S that the contract keeps: the first, and every one
\* whose label differs from the label before it
Kept(S) == {i \in 1..Len(S) : i = 1 \/ S[i] # S[i - 1]}

NthKept(S, n) == CHOOSE i \in Kept(S) : Cardinality({j \in Kept(S) : j <= i}) = n

Collapsed(S) == [n \in 1..Cardinality(Kept(S)) |-> S[NthKept(S, n)]]

Lines(ints) == [i \in 1..Len(ints) |-> FormatInt(ints[i])]

\* C1: the collapsed sequence written for a label file S is empty when S is
\* empty, and otherwise S[0] followed by every S[i] that differs from
\* S[i-1], in order; [3,3,3] gives [3] and [1,1,2,2,1,1] gives [1,2,1].
C1_CollapseContract ==
    \A e \in Saved :
        /\ e.dst \in DOMAIN files
        /\ files[e.dst] = e.dat
        /\ LoadOk(e.dat)
        /\ loadtxt(e.dat) = Collapsed(loadtxt(files[e.src]))
        /\ files[e.src] = <<>> => e.dat = <<>>
        /\ files[e.src] = Lines(<<3, 3, 3>>) => e.dat = Lines(<<3>>)
        /\ files[e.src] = Lines(<<1, 1, 2, 2, 1, 1>>) => e.dat = Lines(<<1, 2, 1>>)

C1_Witness ==
    \E e \in Saved :
        /\ files[e.src] = Lines(<<1, 1, 2, 2, 1, 1>>)
        /\ files[e.dst] = Lines(<<1, 2, 1>>)

\* C3: collapsing is idempotent: converting a written collapsed-label file
\* again yields the same file.
C3_Idempotent ==
    \A e \in Saved : savetxt(make_ctcs(loadtxt(e.dat))) = e.dat

C3_Witness ==
    \E e \in Saved :
        /\ Len(e.dat) >= 2
        /\ Len(e.dat) < Len(files[e.src])
        /\ savetxt(make_ctcs(loadtxt(e.dat))) = e.dat

\* C8: the collapsed sequence is no longer than the frame-label sequence.
C8_NoLonger ==
    \A e \in Saved : Len(files[e.dst]) <= Len(files[e.src])

C8_Witness ==
    \E e \in Saved : Len(files[e.dst]) < Len(files[e.src]) /\ Len(files[e.dst]) >= 1

(***************************************************************************)
(* Properties of the prior counter.                                        *)
(***************************************************************************)
Occurrences(S, k) == Cardinality({i \in 1..Len(S) : S[i] = k})

RECURSIVE TotalFrames(_, _)
TotalFrames(order, k) ==
    IF Len(order) = 0 THEN 0
    ELSE Occurrences(loadtxt(files[Head(order)]), k) + TotalFrames(Tail(order), k)

RECURSIVE TotalSlots(_)
TotalSlots(order) ==
    IF Len(order) = 0 THEN 0
    ELSE Len(files[Head(order)]) + 1 + TotalSlots(Tail(order))

AllParse == \A path \in rglob_phn(files) : LoadOk(files[path])

LabelsOf(path) == {loadtxt(files[path])[i] : i \in 1..Len(files[path])}

AllNonNegative == AllParse /\ \A path \in rglob_phn(files) : \A c \in LabelsOf(path) : c >= 0

AllInRange ==
    AllParse /\ \A path \in rglob_phn(files) : LabelsOf(path) \subseteq 0..(VocabSize - 1)

ExampleFiles ==
    [path \in {<<"a", ".", "p", "h", "n">>, <<"b", ".", "p", "h", "n">>} |->
        IF path[1] = "a" THEN Lines(<<0, 0, 1>>) ELSE Lines(<<2, 2, 2, 1>>)]

ExampleRun ==
    count_priors([tag |-> "str", val |-> Root], ExampleFiles,
                 <<<<"a", ".", "p", "h", "n">>, <<"b", ".", "p", "h", "n">>>>, 2)

\* C2: over frame-label sequences of non-negative labels, count_priors
\* writes a vector of VocabSize entries whose entry k is the number of frames
\* equal to k, plus, at the blank index, the sum of (length + 1) over the
\* utterances; [0,0,1] and [2,2,2,1] with blank 2 give 2, 2, 12.
C2_PriorCounts ==
    /\ (op = "count_priors" /\ pc = "done" /\ AllNonNegative) =>
         /\ PriorsPath \in DOMAIN files
         /\ Len(files[PriorsPath]) = VocabSize
         /\ LoadOk(files[PriorsPath])
         /\ \A k \in 0..(VocabSize - 1) :
               loadtxt(files[PriorsPath])[k + 1] =
                   TotalFrames(phn_files, k) + (IF k = blank THEN TotalSlots(phn_files) ELSE 0)
    /\ VocabSize = 3 =>
         /\ ExampleRun.exc = "none"
         /\ ExampleRun.files[PriorsPath] = Lines(<<2, 2, 12>>)

C2_Witness ==
    /\ op = "count_priors"
    /\ pc = "done"
    /\ AllNonNegative
    /\ Len(phn_files) = 2
    /\ \A i \in 1..2 : Len(files[phn_files[i]]) = 2
    /\ \E i \in 1..2 : blank \in LabelsOf(phn_files[i])
    /\ \E i \in 1..2 : \E c \in LabelsOf(phn_files[i]) : c # blank

Ended == pc \in {"done", "raised"}

\* C5: when a label file cannot be parsed, only that file's conversion is
\* aborted: every well-formed label file of the list still gets its
\* collapsed-label file written.
C5_BatchContinues ==
    (op = "make_ctc_labels" /\ Ended /\ exc # "FileNotFoundError") =>
        \A i \in 1..Len(phn_files) :
            LoadOk(files[phn_files[i]]) => \E e \in Saved : e.src = phn_files[i]

C5_Witness ==
    /\ op = "make_ctc_labels"
    /\ pc = "raised"
    /\ exc = "ValueError"
    /\ \E i \in 1..Len(phn_files) :
          /\ LoadOk(files[phn_files[i]])
          /\ ~\E e \in Saved : e.src = phn_files[i]

\* C6: a frame label outside 0..VocabSize-1 halts prior counting with a
\* bounds error, and no prior-count file is written.
C6_OutOfRangeHalts ==
    (op = "count_priors" /\ Ended /\ AllParse /\ ~AllInRange) =>
        /\ pc = "raised"
        /\ exc = "IndexError"
        /\ PriorsPath \notin DOMAIN files

C6_Witness ==
    /\ op = "count_priors"
    /\ pc = "done"
    /\ ~AllInRange
    /\ PriorsPath \in DOMAIN files

\* C7: a collapsed-label file is written in the directory of its source
\* file, with the same stem and another extension; it is no source label
\* file, and two source files never share an output path.
C7_SiblingOutput ==
    \A e \in Saved :
        /\ PathParent(e.dst) = PathParent(e.src)
        /\ PathStem(e.dst) = PathStem(e.src)
        /\ PathSuffix(e.dst) # PathSuffix(e.src)
        /\ e.dst \notin rglob_phn(files)
        /\ \A e2 \in Saved : e2.src # e.src => e2.dst # e.dst

C7_Witness ==
    \E e1, e2 \in Saved :
        /\ e1.src # e2.src
        /\ e1.dst = e2.dst
        /\ PathParent(e1.dst) # PathParent(e1.src)

\* C9: a run of make_ctc_labels over well-formed label files in vocabulary
\* range ends with a collapsed-label file written per label file and then
\* the prior-count file of VocabSize entries at the root.
C9_PriorsWritten ==
    (op = "make_ctc_labels" /\ Ended /\ AllInRange) =>
        /\ pc = "done"
        /\ \A path \in rglob_phn(files) : \E e \in Saved : e.src = path
        /\ PriorsPath \in DOMAIN files
        /\ Len(files[PriorsPath]) = VocabSize

C9_Witness ==
    /\ op = "make_ctc_labels"
    /\ AllInRange
    /\ Len(saved) = 2
    /\ exc = "TypeError"
    /\ PriorsPath \notin DOMAIN files

(***************************************************************************)
(* Properties of the manifest builder.                                     *)
(***************************************************************************)
Rows == {csv[i] : i \in 1..Len(csv)}

\* C4: the manifest has a row for id k exactly when k is a key of the
\* waveform index and of the transcript index, and at most one row per id.
C4_ManifestJoin ==
    (op = "make_manifest" /\ pc = "done") =>
        /\ {r.k : r \in Rows} = DOMAIN wav_manifest \cap DOMAIN txt_manifest
        /\ \A i, j \in 1..Len(csv) : csv[i].k = csv[j].k => i = j
        /\ \A r \in Rows : /\ r.wav_file = wav_manifest[r.k].file
                           /\ r.txt_file = txt_manifest[r.k].file

C4_Witness ==
    /\ op = "make_manifest"
    /\ pc = "done"
    /\ DOMAIN wav_manifest \ DOMAIN txt_manifest # {}
    /\ DOMAIN txt_manifest \ DOMAIN wav_manifest # {}
    /\ Len(csv) >= 1

\* C10: in both modes every row names the transcript file of an utterance
\* whose cleaned, non-empty transcript was written; an utterance with a
\* waveform file and no transcript file gets no row.
C10_RowsHaveTranscripts ==
    (op = "make_manifest" /\ pc = "done") =>
        \A r \in Rows :
            /\ r.txt_file \in DOMAIN disk.txt
            /\ Len(disk.txt[r.txt_file]) > 0
            /\ TarFile(r.k, TXT) \in DOMAIN disk.txt

C10_Witness ==
    /\ op = "make_manifest"
    /\ pc = "done"
    /\ rebuilt
    /\ \E r \in Rows : /\ r.wav_file \in DOMAIN disk.wav
                       /\ TarFile(r.k, TXT) \notin DOMAIN disk.txt

====
